---- MODULE Spec2Model ----
(***************************************************************************)
(* PythonRuff (src/python_ruff.py): a Sublime Text plugin that runs the    *)
(* external ruff binary to format, lint and fix a Python buffer, stores    *)
(* the lint diagnostics in the view setting ruff_diagnostics, renders them *)
(* as regions and navigates between them.                                  *)
(*                                                                         *)
(* Texts and rule codes are sequences of one-character strings, a file     *)
(* path is the sequence of its components (<<>> is the root directory; as  *)
(* a file name, <<>> is Python's None or "").                              *)
(***************************************************************************)
EXTENDS Integers, Sequences, FiniteSets, TLC

VARIABLES
    buffer,            \* the text of the view
    sel,               \* view.sel()[0], a region [a, b]
    ruff_diagnostics,  \* the view setting: [present, diags]
    regions,           \* the rendered regions of each region key
    proc,              \* the process spawned by the latest command
    last,              \* what the latest command was given and did
    sev_code,          \* the rule code handed to _get_severity
    sev_result,        \* what _get_severity returned for it
    cfg_fs,            \* the regular files of the file system
    cfg_filepath,      \* the argument of get_ruff_config_file
    cfg_pc,            \* where get_ruff_config_file stands
    current_dir,       \* its local current_dir
    cfg_result,        \* its return value
    inv_in,            \* the settings and file name a command line is built from
    inv_mode,          \* the command that built the latest command line
    inv_cmd,           \* the latest command line (cmd)
    hover_point,       \* the point of the latest on_hover (-1: none yet)
    hover_diagnostics, \* the diagnostics its popup shows (<<>>: no popup)
    tool,              \* what the formatter answered to each input so far
    format_runs,       \* format commands run so far
    whole_runs,        \* whole-buffer format commands run in a row
    save_settings,     \* the global and the project on-save settings
    save_pc,           \* where the save of the view stands
    save_log,          \* the commands run and the save, in order
    nav_dir,           \* the navigation command invoked repeatedly
    nav_seen,          \* the diagnostics it selected in this streak
    nav_count          \* its invocations in this streak

mainVars == <<buffer, sel, ruff_diagnostics, regions, proc, last>>
sevVars  == <<sev_code, sev_result>>
cfgVars  == <<cfg_fs, cfg_filepath, cfg_pc, current_dir, cfg_result>>
invVars  == <<inv_in, inv_mode, inv_cmd>>
hovVars  == <<hover_point, hover_diagnostics>>
fmtVars  == <<tool, format_runs, whole_runs>>
saveVars == <<save_settings, save_pc, save_log>>
navVars  == <<nav_dir, nav_seen, nav_count>>
vars     == <<mainVars, sevVars, cfgVars, invVars, hovVars, fmtVars, saveVars, navVars>>

-----------------------------------------------------------------------------
(* Bounds of the model *)

MaxTextLen == 2   \* longest buffer text, in characters
MaxEditLen == 1   \* the same, in sessions that mix all the commands
MaxRow     == 3   \* largest row the tool reports
MaxIssues  == 2   \* most elements in one lint output
MaxCodeLen == 3   \* longest rule code the classifier is enumerated on
MaxDepth   == 2   \* deepest directory of the file system
MaxFormatRuns == 2  \* format commands run against one formatter

Min(a, b) == IF a <= b THEN a ELSE b
Max(a, b) == IF a >= b THEN a ELSE b

SeqsUpTo(S, n) == UNION {[1..k -> S] : k \in 0..n}

-----------------------------------------------------------------------------
(* SeverityClassifier *)

error_prefixes == {"E", "F"}

warning_prefixes ==
    { <<"W">>, <<"N">>, <<"D">>, <<"U","P">>, <<"A","N","N">>, <<"S">>, <<"B">>,
      <<"A">>, <<"C">>, <<"D","T","Z">>, <<"T">>, <<"E","M">>, <<"E","X","E">>,
      <<"I","S","C">>, <<"I","C","N">>, <<"G">>, <<"I","N","P">>, <<"P","I","E">>,
      <<"P","Y","I">>, <<"P","T">>, <<"Q">>, <<"R","S","E">>, <<"R","E","T">>,
      <<"S","L","F">>, <<"S","L","O","T">>, <<"S","I","M">>, <<"T","I","D">>,
      <<"T","C","H">>, <<"I","N","T">>, <<"A","R","G">>, <<"P","T","H">>,
      <<"T","D">>, <<"F","I","X">>, <<"E","R","A">>, <<"P","D">>, <<"P","G","H">>,
      <<"P","L">>, <<"T","R","Y">>, <<"F","L","Y">>, <<"N","P","Y">>,
      <<"A","I","R">>, <<"P","E","R","F">>, <<"F","U","R","B">>, <<"L","O","G">>,
      <<"R","U","F">> }

\* str.startswith
startswith(s, prefix) ==
    /\ Len(prefix) <= Len(s)
    /\ SubSeq(s, 1, Len(prefix)) = prefix

\* A plausible slip: the warning list is consulted before the error families.
get_severity_warning_first(code) ==
    IF code = <<>> THEN "error"
    ELSE IF \E prefix \in warning_prefixes : startswith(code, prefix) THEN "warning"
    ELSE IF code[1] \in error_prefixes THEN "error"
    ELSE "info"

\* _get_severity; a missing or null code arrives as the empty code
get_severity(code) ==
    IF code = <<>> THEN "error"
    ELSE LET first_char == code[1] IN
         IF first_char \in error_prefixes THEN "error"
         ELSE IF \E prefix \in warning_prefixes : startswith(code, prefix)
              THEN "warning"
         ELSE "info"

-----------------------------------------------------------------------------
(* ConfigResolver *)

config_names == <<"ruff.toml", ".ruff.toml", "pyproject.toml">>

\* os.path.dirname on an absolute path; the root is its own parent
dirname(path) == IF path = <<>> THEN <<>> ELSE SubSeq(path, 1, Len(path) - 1)

\* A plausible slip: the last recognized name found in dir wins.
config_in_last_name(fs, dir) ==
    LET hits == {i \in 1..Len(config_names) : Append(dir, config_names[i]) \in fs}
    IN  IF hits = {} THEN <<>>
        ELSE Append(dir, config_names[CHOOSE i \in hits : \A j \in hits : j <= i])

\* The inner for loop: the first recognized name that is a file of dir, or <<>>
config_in(fs, dir) ==
    LET hits == {i \in 1..Len(config_names) : Append(dir, config_names[i]) \in fs}
    IN  IF hits = {} THEN <<>>
        ELSE Append(dir, config_names[CHOOSE i \in hits : \A j \in hits : i <= j])

RECURSIVE walk_up(_, _)
walk_up(fs, dir) ==
    LET config_file == config_in(fs, dir)
        parent_dir  == dirname(dir)
    IN  IF config_file # <<>> THEN config_file
        ELSE IF parent_dir = dir THEN <<>>
        ELSE walk_up(fs, parent_dir)

\* get_ruff_config_file as a function of the file system and the file name
get_ruff_config_file(fs, filepath) ==
    IF filepath = <<>> THEN <<>> ELSE walk_up(fs, dirname(filepath))

-----------------------------------------------------------------------------
(* The host editor's text API (sublime.View, sublime.Region) *)

Chars == {"x", "\n"}            \* a word character and the line break
TextsUpTo(n) == SeqsUpTo(Chars, n)
Texts == TextsUpTo(MaxTextLen)

Region(a, b) == [a |-> a, b |-> b]
begin(r)     == Min(r.a, r.b)
end(r)       == Max(r.a, r.b)
empty(r)     == r.a = r.b
contains(r, point) == begin(r) <= point /\ point <= end(r)

size(text) == Len(text)

\* view.substr(region)
substr(text, r) == SubSeq(text, begin(r) + 1, end(r))

newlines(text) == {i \in 1..Len(text) : text[i] = "\n"}

\* offset of the first character of the 0-based line
line_start(text, line) ==
    IF line <= 0 THEN 0
    ELSE IF Cardinality(newlines(text)) < line THEN Len(text)
    ELSE CHOOSE i \in newlines(text) :
             Cardinality({j \in newlines(text) : j <= i}) = line

\* view.text_point(line, col): col characters past the start of the line,
\* within the buffer
text_point(text, line, col) ==
    Min(line_start(text, line) + Max(col, 0), Len(text))

\* view.line(point).end()
line_end(text, point) ==
    LET after == {i \in newlines(text) : i - 1 >= point}
    IN  IF after = {} THEN Len(text)
        ELSE (CHOOSE i \in after : \A j \in after : i <= j) - 1

is_word_char(text, offset) ==
    offset >= 0 /\ offset < Len(text) /\ text[offset + 1] = "x"

\* view.word(point): the run of word characters around the point
word(text, point) ==
    LET a == CHOOSE k \in 0..point :
                 /\ \A o \in k..(point - 1) : is_word_char(text, o)
                 /\ (k = 0 \/ ~is_word_char(text, k - 1))
        b == CHOOSE k \in point..Len(text) :
                 /\ \A o \in point..(k - 1) : is_word_char(text, o)
                 /\ ~is_word_char(text, k)
    IN  Region(a, b)

\* view.replace(edit, region, text); the selection stays inside the buffer
replace(v, r, text) ==
    LET new == SubSeq(v.buffer, 1, begin(r)) \o text
               \o SubSeq(v.buffer, end(r) + 1, Len(v.buffer))
    IN  [v EXCEPT !.buffer = new,
                  !.sel = Region(Min(v.sel.a, Len(new)), Min(v.sel.b, Len(new)))]

region_keys == {"ruff_errors", "ruff_warnings", "ruff_info"}

\* view.sel().clear(); view.sel().add(region): a selection lies in the buffer
select(v, r) ==
    [v EXCEPT !.sel = Region(Min(r.a, Len(v.buffer)), Min(r.b, Len(v.buffer)))]

\* view.erase_regions for the three keys
erase_regions(v) == [v EXCEPT !.regions = [k \in region_keys |-> <<>>]]

\* view.settings().erase("ruff_diagnostics")
NoDiagnostics == [present |-> FALSE, diags |-> <<>>]
erase_diagnostics(v) == [v EXCEPT !.ruff_diagnostics = NoDiagnostics]

\* view.settings().get("ruff_diagnostics", [])
get_diagnostics(v) == v.ruff_diagnostics.diags

-----------------------------------------------------------------------------
(* The tool's lint output and _show_diagnostics *)

E501 == <<"E", "5", "0", "1">>
W605 == <<"W", "6", "0", "5">>
ZZ1  == <<"Z", "Z", "1">>
IssueCodes == {E501, W605, ZZ1}
Rows == 1..MaxRow

\* A list element that is an issue object: rows and columns are 1-based, the
\* end location is optional (message and url are carried along unread)
Issue(row, column, has_end, code) ==
    [kind |-> "issue", row |-> row, column |-> column, has_end |-> has_end,
     end_row |-> row, end_column |-> column + 1, code |-> code]
\* The issues the tool reports: a base issue (row 1, E501, no end location)
\* varied in its row, and in its rule code together with an end location
BaseIssue == Issue(1, 1, FALSE, E501)
IssuePool ==
    {Issue(r, 1, FALSE, E501) : r \in Rows}
    \cup {Issue(1, 1, TRUE, c) : c \in IssueCodes \ {E501}}

\* Elements that are no issue objects: a number or a string (no .get), an object
\* whose row is no number
NotIssue(kind) ==
    [kind |-> kind, row |-> 0, column |-> 0, has_end |-> FALSE, end_row |-> 0,
     end_column |-> 0, code |-> <<>>]
BadElems == {NotIssue("non_object"), NotIssue("bad_row")}

\* The exception processing the element raises in the loop of _show_diagnostics
elem_error(diag) ==
    CASE diag.kind = "issue"        -> ""
      [] diag.kind = "non_object"   -> "AttributeError"
      [] diag.kind = "bad_row"      -> "TypeError"

\* Standard output of `ruff check`: empty, no JSON at all, a JSON number or
\* null, or a JSON value Python iterates over: a list (its elements), an object
\* (its keys, which are strings) or a string (its characters)
Stdout(kind, elems) == [kind |-> kind, elems |-> elems]
NoOutput == Stdout("empty", <<>>)
LintOutputs ==
    {NoOutput, Stdout("malformed", <<>>), Stdout("scalar", <<>>),
     Stdout("object", <<>>), Stdout("object", <<NotIssue("non_object")>>)}
    \cup {Stdout("list", s) : s \in SeqsUpTo(IssuePool, MaxIssues)}
    \cup {Stdout("list", Append(s, e)) :
              s \in SeqsUpTo({BaseIssue}, MaxIssues - 1), e \in BadElems}

\* One pass of the loop body: the stored diagnostic of an issue
convert(text, diag) ==
    LET row    == diag.row
        column == diag.column
        point  == text_point(text, row - 1, column - 1)
        end_point ==
            IF diag.has_end
            THEN text_point(text, diag.end_row - 1, diag.end_column - 1)
            ELSE LET word_region == word(text, point)
                 IN  IF empty(word_region) THEN line_end(text, point)
                     ELSE end(word_region)
    IN  [region |-> Region(point, end_point), code |-> diag.code,
         severity |-> get_severity(diag.code), row |-> row, col |-> column]

\* The loop of _show_diagnostics: all_diagnostics, or the exception that ends it
RECURSIVE convert_all(_, _)
convert_all(text, diagnostics) ==
    IF diagnostics = <<>> THEN [raised |-> "", all |-> <<>>]
    ELSE LET diag == Head(diagnostics) IN
         IF elem_error(diag) # "" THEN [raised |-> elem_error(diag), all |-> <<>>]
         ELSE LET rest == convert_all(text, Tail(diagnostics)) IN
              IF rest.raised # "" THEN rest
              ELSE [raised |-> "", all |-> <<convert(text, diag)>> \o rest.all]

regions_of(s, sev) ==
    LET F[i \in 0..Len(s)] ==
            IF i = 0 THEN <<>>
            ELSE IF s[i].severity = sev THEN Append(F[i - 1], s[i].region)
            ELSE F[i - 1]
    IN  F[Len(s)]

key_severity(k) ==
    CASE k = "ruff_errors" -> "error"
      [] k = "ruff_warnings" -> "warning"
      [] OTHER -> "info"

\* A command's outcome: the view it leaves, the messages it showed the user,
\* the exception that escaped it ("" when none)
Outcome(v, msgs, raised) == [view |-> v, msgs |-> msgs, raised |-> raised]

\* A plausible slip: each diagnostic is stored as soon as it is converted, so
\* those before a failing element stay stored.
show_diagnostics_store_first(v, diagnostics) ==
    LET good == {n \in 0..Len(diagnostics) :
                     \A i \in 1..n : elem_error(diagnostics[i]) = ""}
        n    == CHOOSE k \in good : \A j \in good : j <= k
        res  == convert_all(v.buffer, SubSeq(diagnostics, 1, n))
        stored == [v EXCEPT !.ruff_diagnostics =
                                [present |-> TRUE, diags |-> res.all]]
    IN  IF n < Len(diagnostics)
        THEN Outcome(stored, <<>>, elem_error(diagnostics[n + 1]))
        ELSE Outcome(stored, <<"status: Found issue(s)">>, "")

\* _show_diagnostics: nothing is stored or rendered when the loop raises
show_diagnostics(v, diagnostics) ==
    LET res == convert_all(v.buffer, diagnostics)
        all_diagnostics == res.all
        stored == [v EXCEPT !.ruff_diagnostics =
                                [present |-> TRUE, diags |-> all_diagnostics]]
        rendered ==
            [stored EXCEPT !.regions =
                [k \in region_keys |->
                    LET rs == regions_of(all_diagnostics, key_severity(k))
                    IN  IF rs # <<>> THEN rs ELSE v.regions[k]]]
    IN  IF res.raised # "" THEN Outcome(v, <<>>, res.raised)
        ELSE Outcome(rendered, <<"status: Found issue(s)">>, "")

-----------------------------------------------------------------------------
(* ProcessRunner and the commands *)

\* What one invocation meets: the view is no Python source (not_python),
\* find_ruff_binary raises FileNotFoundError (not_found), subprocess.Popen
\* raises (spawn_failure), communicate(timeout=...) raises TimeoutExpired
\* (timeout), or the process exits with a return code and its standard output
ProcRun(kind, returncode, stdout) ==
    [kind |-> kind, returncode |-> returncode, stdout |-> stdout]
ExitCodes == {0, 1, 2}
NoExitKinds == {"not_python", "not_found", "spawn_failure", "timeout"}
TextRuns(n) ==
    {ProcRun(k, 0, <<>>) : k \in NoExitKinds}
    \cup {ProcRun("exit", rc, out) : rc \in ExitCodes, out \in TextsUpTo(n)}
LintRuns ==
    {ProcRun(k, 0, NoOutput) : k \in NoExitKinds}
    \cup {ProcRun("exit", 0, NoOutput), ProcRun("exit", 2, NoOutput)}
    \cup {ProcRun("exit", 1, out) : out \in LintOutputs}

View(b, s, d, r) == [buffer |-> b, sel |-> s, ruff_diagnostics |-> d, regions |-> r]

\* The result of a command: Outcome, the Popen calls it made, the state of the
\* process it left ("none", "exited", "running"), whether it wrote the buffer,
\* the index of the diagnostic it selected (0 when none) and the cursor
\* position it selected it from
Result(v, msgs, raised, spawned, process, replaced) ==
    [view |-> v, msgs |-> msgs, raised |-> raised, spawned |-> spawned,
     process |-> process, replaced |-> replaced, picked |-> 0, pos |-> 0]

\* The classes `except Exception` catches: every exception of the model
Exceptions == {"OSError", "TimeoutExpired", "ValueError", "AttributeError", "TypeError"}

\* A plausible slip: the handler shows its message and raises the exception
\* again.
except_reraise(res, classes, msg) ==
    IF res.raised \in classes
    THEN [res EXCEPT !.msgs = Append(res.msgs, msg)]
    ELSE res

\* An except clause: the exception is caught when its class is listed
except(res, classes, msg) ==
    IF res.raised \in classes
    THEN [res EXCEPT !.raised = "", !.msgs = Append(res.msgs, msg)]
    ELSE res

\* communicate(): the child is not killed when the timeout expires
communicate(run) == IF run.kind = "timeout" THEN "running" ELSE "exited"

\* A plausible slip: the output of a successful run is written without
\* comparing it with the text sent.
format_run_always_writes(v, use_selection, inp) ==
    LET region == IF empty(v.sel) \/ ~use_selection
                  THEN Region(0, size(v.buffer)) ELSE v.sel
    IN  IF inp.kind \in {"not_python", "not_found"}
        THEN Result(v, <<"status: not run">>, "", 0, "none", FALSE)
        ELSE IF inp.kind = "spawn_failure"
        THEN Result(v, <<"error: exception">>, "", 1, "none", FALSE)
        ELSE IF inp.kind = "timeout"
        THEN Result(v, <<"error: Ruff execution timed out">>, "", 1,
                    communicate(inp), FALSE)
        ELSE IF inp.returncode = 0
        THEN Result(replace(v, region, inp.stdout),
                    <<"status: Formatted successfully">>, "", 1,
                    communicate(inp), TRUE)
        ELSE Result(v, <<"status: Formatting failed">>, "", 1,
                    communicate(inp), FALSE)

\* PythonRuffFormatCommand.run
format_run(v, use_selection, inp) ==
    IF inp.kind = "not_python"
    THEN Result(v, <<"status: Not a Python file">>, "", 0, "none", FALSE)
    ELSE IF inp.kind = "not_found"
    THEN Result(v, <<"error: ruff not found">>, "", 0, "none", FALSE)
    ELSE
    LET region == IF empty(v.sel) \/ ~use_selection
                  THEN Region(0, size(v.buffer)) ELSE v.sel
        code == substr(v.buffer, region)
        run  == inp
        formatted_code == run.stdout
        body ==
            IF run.kind = "spawn_failure"
            THEN Result(v, <<>>, "OSError", 1, "none", FALSE)
            ELSE IF run.kind = "timeout"
            THEN Result(v, <<>>, "TimeoutExpired", 1, communicate(run), FALSE)
            ELSE IF run.returncode = 0
            THEN IF formatted_code # code
                 THEN Result(replace(v, region, formatted_code),
                             <<"status: Formatted successfully">>, "", 1,
                             communicate(run), TRUE)
                 ELSE Result(v, <<"status: Already formatted">>, "", 1,
                             communicate(run), FALSE)
            ELSE Result(v, <<"status: Formatting failed">>, "", 1,
                        communicate(run), FALSE)
    IN  except(except(body, {"TimeoutExpired"}, "error: Ruff execution timed out"),
               Exceptions, "error: exception")

\* json.loads(output) if output else [], then the call of _show_diagnostics
parse_and_show(v, output) ==
    IF output.kind = "malformed" THEN Outcome(v, <<>>, "ValueError")
    ELSE IF output.kind = "scalar" THEN Outcome(v, <<>>, "TypeError")
    ELSE show_diagnostics(v, output.elems)

\* PythonRuffLintCommand.run
lint_run(v, inp) ==
    IF inp.kind = "not_python"
    THEN Result(v, <<"status: Not a Python file">>, "", 0, "none", FALSE)
    ELSE IF inp.kind = "not_found"
    THEN Result(v, <<"error: ruff not found">>, "", 0, "none", FALSE)
    ELSE
    LET v1  == erase_regions(v)
        run == inp
        body ==
            IF run.kind = "spawn_failure"
            THEN Result(v1, <<>>, "OSError", 1, "none", FALSE)
            ELSE IF run.kind = "timeout"
            THEN Result(v1, <<>>, "TimeoutExpired", 1, communicate(run), FALSE)
            ELSE IF run.returncode = 0
            THEN Result(erase_diagnostics(erase_regions(v1)),
                        <<"status: No issues found">>, "", 1, communicate(run), FALSE)
            ELSE IF run.returncode = 1
            THEN LET shown == except(parse_and_show(v1, run.stdout),
                                     {"ValueError", "AttributeError"},
                                     "error: Failed to parse linter output")
                 IN  Result(shown.view, shown.msgs, shown.raised, 1,
                            communicate(run), FALSE)
            ELSE Result(v1, <<"error: Lint failed">>, "", 1, communicate(run), FALSE)
    IN  except(except(body, {"TimeoutExpired"}, "error: Ruff execution timed out"),
               Exceptions, "error: exception")

\* A plausible slip: the output is applied whatever the exit code.
fix_run_any_exit(v, inp) ==
    IF inp.kind \in {"not_python", "not_found"}
    THEN Result(v, <<"status: not run">>, "", 0, "none", FALSE)
    ELSE IF inp.kind = "spawn_failure"
    THEN Result(v, <<"error: exception">>, "", 1, "none", FALSE)
    ELSE IF inp.kind = "timeout"
    THEN Result(v, <<"error: Ruff execution timed out">>, "", 1,
                communicate(inp), FALSE)
    ELSE IF inp.stdout # <<>> /\ inp.stdout # v.buffer
    THEN Result(replace(v, Region(0, size(v.buffer)), inp.stdout),
                <<"status: Fixed issues successfully">>, "", 1,
                communicate(inp), TRUE)
    ELSE Result(v, <<"status: No fixable issues found">>, "", 1,
                communicate(inp), FALSE)

\* PythonRuffFixCommand.run
fix_run(v, inp) ==
    IF inp.kind = "not_python"
    THEN Result(v, <<"status: Not a Python file">>, "", 0, "none", FALSE)
    ELSE IF inp.kind = "not_found"
    THEN Result(v, <<"error: ruff not found">>, "", 0, "none", FALSE)
    ELSE
    LET code == substr(v.buffer, Region(0, size(v.buffer)))
        run  == inp
        fixed_code == run.stdout
        body ==
            IF run.kind = "spawn_failure"
            THEN Result(v, <<>>, "OSError", 1, "none", FALSE)
            ELSE IF run.kind = "timeout"
            THEN Result(v, <<>>, "TimeoutExpired", 1, communicate(run), FALSE)
            ELSE IF run.returncode = 0 \/ run.returncode = 1
            THEN IF fixed_code # <<>> /\ fixed_code # code
                 THEN Result(replace(v, Region(0, size(v.buffer)), fixed_code),
                             <<"status: Fixed issues successfully">>, "", 1,
                             communicate(run), TRUE)
                 ELSE Result(v, <<"status: No fixable issues found">>, "", 1,
                             communicate(run), FALSE)
            ELSE Result(v, <<"status: Fix failed">>, "", 1, communicate(run), FALSE)
    IN  except(except(body, {"TimeoutExpired"}, "error: Ruff execution timed out"),
               Exceptions, "error: exception")

\* A plausible slip: the regions are erased and the setting is left behind.
clear_run_regions_only(v) ==
    Result(erase_regions(v), <<"status: Cleared lint markers">>, "", 0, "none", FALSE)

\* PythonRuffClearLintCommand.run
clear_run(v) ==
    Result(erase_diagnostics(erase_regions(v)),
           <<"status: Cleared lint markers">>, "", 0, "none", FALSE)

-----------------------------------------------------------------------------
(* Navigation *)

\* A plausible slip: a diagnostic that starts at the cursor counts as the next.
next_index_at_or_after(diagnostics, current_pos) ==
    LET after == {i \in 1..Len(diagnostics) :
                      begin(diagnostics[i].region) >= current_pos}
    IN  IF after # {} THEN CHOOSE i \in after : \A j \in after : i <= j
        ELSE 1

\* The loop of PythonRuffNextErrorCommand.run and its wrap: the index of the
\* diagnostic it selects in a non-empty list
next_index(diagnostics, current_pos) ==
    LET after == {i \in 1..Len(diagnostics) :
                      begin(diagnostics[i].region) > current_pos}
    IN  IF after # {} THEN CHOOSE i \in after : \A j \in after : i <= j
        ELSE 1

\* A plausible slip: previous wraps to the first diagnostic, as next does.
previous_index_wrap_first(diagnostics, current_pos) ==
    LET before == {i \in 1..Len(diagnostics) :
                       begin(diagnostics[i].region) < current_pos}
    IN  IF before # {} THEN CHOOSE i \in before : \A j \in before : j <= i
        ELSE 1

\* The reversed loop of PythonRuffPreviousErrorCommand.run and its wrap
previous_index(diagnostics, current_pos) ==
    LET before == {i \in 1..Len(diagnostics) :
                       begin(diagnostics[i].region) < current_pos}
    IN  IF before # {} THEN CHOOSE i \in before : \A j \in before : j <= i
        ELSE Len(diagnostics)

\* PythonRuffNextErrorCommand.run
next_error_run(v) ==
    LET diagnostics == get_diagnostics(v)
        current_pos == begin(v.sel)
        picked      == next_index(diagnostics, current_pos)
        next_diag   == diagnostics[picked]
    IN  IF diagnostics = <<>>
        THEN [Result(v, <<"status: No errors found">>, "", 0, "none", FALSE)
              EXCEPT !.pos = begin(v.sel)]
        ELSE [Result(select(v, next_diag.region), <<"status: message [code]">>,
                     "", 0, "none", FALSE)
              EXCEPT !.picked = picked, !.pos = current_pos]

\* PythonRuffPreviousErrorCommand.run
previous_error_run(v) ==
    LET diagnostics == get_diagnostics(v)
        current_pos == begin(v.sel)
        picked      == previous_index(diagnostics, current_pos)
        prev_diag   == diagnostics[picked]
    IN  IF diagnostics = <<>>
        THEN [Result(v, <<"status: No errors found">>, "", 0, "none", FALSE)
              EXCEPT !.pos = begin(v.sel)]
        ELSE [Result(select(v, prev_diag.region), <<"status: message [code]">>,
                     "", 0, "none", FALSE)
              EXCEPT !.picked = picked, !.pos = current_pos]

-----------------------------------------------------------------------------
(* The editor session: one view, the commands run on it one at a time *)

TheView == View(buffer, sel, ruff_diagnostics, regions)

\* The part of a lint output that decided the run: all of it when it was
\* converted, its first element that is no issue object otherwise
decisive(output) ==
    LET bad == {i \in 1..Len(output.elems) : elem_error(output.elems[i]) # ""}
    IN  IF bad = {} THEN output
        ELSE Stdout(output.kind,
                    <<output.elems[CHOOSE i \in bad : \A j \in bad : i <= j]>>)

\* What the latest command was given (the command, what its invocation met,
\* for a text command whether the tool's output equals the text sent, for a
\* navigation command the cursor position) and did
Last(cmd, run, lint_out, same, res) ==
    [cmd |-> cmd, run_kind |-> run.kind, returncode |-> run.returncode,
     lint_out |-> lint_out, same |-> same, pos |-> res.pos,
     msgs |-> res.msgs, raised |-> res.raised, spawned |-> res.spawned,
     replaced |-> res.replaced, picked |-> res.picked]

NoRun == ProcRun("none", 0, <<>>)

\* The command returns; its result becomes the state of the view (n bounds
\* the text a session holds)
ApplyView(n, cmd, run, lint_out, same, result) ==
    \E res \in {result} :
        /\ Len(res.view.buffer) <= n
        /\ buffer' = res.view.buffer
        /\ sel' = res.view.sel
        /\ ruff_diagnostics' = res.view.ruff_diagnostics
        /\ regions' = res.view.regions
        /\ proc' = res.process
        /\ last' = Last(cmd, run, lint_out, same, res)

Apply(n, cmd, run, lint_out, same, result) ==
    /\ ApplyView(n, cmd, run, lint_out, same, result)
    /\ UNCHANGED <<sevVars, cfgVars, invVars, hovVars, fmtVars, saveVars, navVars>>

IdleSev == /\ sev_code = <<>>
           /\ sev_result = ""
IdleCfg == /\ cfg_fs = {}
           /\ cfg_filepath = <<>>
           /\ cfg_pc = "idle"
           /\ current_dir = <<>>
           /\ cfg_result = <<>>
IdleInv == /\ inv_in = [line_length |-> 0, use_config_file |-> TRUE,
                        filepath |-> <<>>, fs |-> {}]
           /\ inv_mode = ""
           /\ inv_cmd = <<>>

IdleHov == /\ hover_point = -1
           /\ hover_diagnostics = <<>>
IdleFmt == /\ tool = {}
           /\ format_runs = 0
           /\ whole_runs = 0
IdleSave == /\ save_settings = [is_python |-> TRUE, global |-> <<>>, project |-> <<>>]
            /\ save_pc = "idle"
            /\ save_log = <<>>
IdleNav == /\ nav_dir = "none"
           /\ nav_seen = {}
           /\ nav_count = 0

NoLast == Last("none", NoRun, NoOutput, FALSE,
               Result(View(<<>>, Region(0, 0), NoDiagnostics, <<>>),
                      <<>>, "", 0, "none", FALSE))

\* A view that was just opened on the text: nothing linted, caret at the start
Opened(text) ==
    /\ buffer = text
    /\ sel = Region(0, 0)
    /\ ruff_diagnostics = NoDiagnostics
    /\ regions = [k \in region_keys |-> <<>>]
    /\ proc = "none"
    /\ last = NoLast

Format(n) ==
    \E use_selection \in BOOLEAN, run \in TextRuns(n) :
        LET region == IF empty(sel) \/ ~use_selection
                      THEN Region(0, size(buffer)) ELSE sel
        IN  Apply(n, "format", run, NoOutput, run.stdout = substr(buffer, region),
                  format_run(TheView, use_selection, run))

\* The lint command, the tool's run drawn from runs
LintOf(runs) ==
    \E run \in runs :
        Apply(MaxTextLen, "lint", run, decisive(run.stdout), FALSE,
              lint_run(TheView, run))

Lint == LintOf(LintRuns)

Fix(n) ==
    \E run \in TextRuns(n) :
        Apply(n, "fix", run, NoOutput, run.stdout = buffer, fix_run(TheView, run))

ClearLint ==
    Apply(MaxTextLen, "clear", NoRun, NoOutput, FALSE, clear_run(TheView))

NextError ==
    Apply(MaxTextLen, "next", NoRun, NoOutput, FALSE, next_error_run(TheView))

PreviousError ==
    Apply(MaxTextLen, "previous", NoRun, NoOutput, FALSE,
          previous_error_run(TheView))

\* The user moves the caret or selects a range; no command runs
MoveCursor ==
    \E a \in 0..size(buffer), b \in 0..size(buffer) :
        /\ a <= b
        /\ sel' = Region(a, b)
        /\ UNCHANGED <<buffer, ruff_diagnostics, regions, proc, last,
                       sevVars, cfgVars, invVars,
                       hovVars, fmtVars, saveVars, navVars>>

\* A plausible slip: the erasing lines of on_modified_async are live.
on_modified_async_erasing(n) ==
    \E text \in TextsUpTo(n) :
        /\ text # buffer
        /\ buffer' = text
        /\ sel' = Region(Min(sel.a, Len(text)), Min(sel.b, Len(text)))
        /\ ruff_diagnostics' = NoDiagnostics
        /\ regions' = [k \in region_keys |-> <<>>]
        /\ UNCHANGED <<proc, last, sevVars, cfgVars, invVars,
                       hovVars, fmtVars, saveVars, navVars>>

\* The user edits the text; on_modified_async runs and erases nothing
on_modified_async(n) ==
    \E text \in TextsUpTo(n) :
        /\ text # buffer
        /\ buffer' = text
        /\ sel' = Region(Min(sel.a, Len(text)), Min(sel.b, Len(text)))
        /\ UNCHANGED <<ruff_diagnostics, regions, proc, last,
                       sevVars, cfgVars, invVars,
                       hovVars, fmtVars, saveVars, navVars>>

\* A process the command left running ends by itself
ProcExit ==
    /\ proc = "running"
    /\ proc' = "exited"
    /\ UNCHANGED <<buffer, sel, ruff_diagnostics, regions, last,
                   sevVars, cfgVars, invVars,
                   hovVars, fmtVars, saveVars, navVars>>

\* A session that mixes all the commands, on short texts
Init ==
    /\ \E text \in TextsUpTo(MaxEditLen) : Opened(text)
    /\ IdleSev /\ IdleCfg /\ IdleInv
    /\ IdleHov /\ IdleFmt /\ IdleSave /\ IdleNav

Next ==
    \/ Format(MaxEditLen)
    \/ Lint
    \/ Fix(MaxEditLen)
    \/ ClearLint
    \/ NextError
    \/ PreviousError
    \/ MoveCursor
    \/ on_modified_async(MaxEditLen)
    \/ ProcExit

Spec == Init /\ [][Next]_vars

\* A session of lint, clear and navigation on one text
InitLint ==
    /\ \E text \in Texts : Opened(text)
    /\ IdleSev /\ IdleCfg /\ IdleInv
    /\ IdleHov /\ IdleFmt /\ IdleSave /\ IdleNav

NextLint ==
    \/ Lint
    \/ ClearLint
    \/ NextError
    \/ PreviousError
    \/ MoveCursor
    \/ ProcExit

SpecLint == InitLint /\ [][NextLint]_vars

\* A session of format, fix and editing
NextText ==
    \/ Format(MaxTextLen)
    \/ Fix(MaxTextLen)
    \/ MoveCursor
    \/ on_modified_async(MaxTextLen)
    \/ ProcExit

SpecText == InitLint /\ [][NextText]_vars

-----------------------------------------------------------------------------
(* Hover: on_hover looks the hovered point up in the stored diagnostics *)

\* A plausible slip: the loop stops at the first diagnostic that contains the
\* point.
hover_lookup_first(diagnostics, point) ==
    LET hits == {i \in 1..Len(diagnostics) : contains(diagnostics[i].region, point)}
    IN  IF hits = {} THEN <<>>
        ELSE <<diagnostics[CHOOSE i \in hits : \A j \in hits : i <= j]>>

\* The loop of on_hover: hover_diagnostics
hover_lookup(diagnostics, point) ==
    SelectSeq(diagnostics, LAMBDA diag : contains(diag.region, point))

HoverZones == {"text", "gutter"}

\* PythonRuffEventListener.on_hover: the diagnostics of the popup; no lookup is
\* made outside the text or outside Python source
on_hover ==
    \E point \in 0..size(buffer), hover_zone \in HoverZones, is_python \in BOOLEAN :
        /\ IF hover_zone # "text" \/ ~is_python
           THEN /\ hover_point' = -1
                /\ hover_diagnostics' = <<>>
           ELSE /\ hover_point' = point
                /\ hover_diagnostics' = hover_lookup(get_diagnostics(TheView), point)
        /\ UNCHANGED <<mainVars, sevVars, cfgVars, invVars, fmtVars, saveVars, navVars>>

\* Lint runs that report issues
IssueRuns == {ProcRun("exit", 1, Stdout("list", s)) : s \in SeqsUpTo(IssuePool, MaxIssues)}

\* A session of lint runs that report issues, clears and hovers on one text
NextHover ==
    \/ LintOf(IssueRuns)
    \/ ClearLint
    \/ on_hover

SpecHover == InitLint /\ [][NextHover]_vars

-----------------------------------------------------------------------------
(* Format against one formatter: the same text sent meets the same run, and
   the formatter's output is a fixed point of the formatter *)

Answer(code, run) == [inp |-> code, run |-> run]

Formatted(e) == e.run.kind = "exit" /\ e.run.returncode = 0

\* f(f(x)) = f(x), on the inputs answered so far
FixedPoint(answers) ==
    \A e \in answers : Formatted(e) =>
        \A g \in answers :
            (g.inp = e.run.stdout /\ Formatted(g)) => g.run.stdout = e.run.stdout

\* The runs the text sent can meet
Answers(code) ==
    IF \E e \in tool : e.inp = code
    THEN {e.run : e \in {g \in tool : g.inp = code}}
    ELSE {run \in TextRuns(MaxTextLen) : FixedPoint(tool \cup {Answer(code, run)})}

\* The format command, run against the formatter
FormatTool ==
    /\ format_runs < MaxFormatRuns
    /\ \E use_selection \in BOOLEAN :
           LET region == IF empty(sel) \/ ~use_selection
                         THEN Region(0, size(buffer)) ELSE sel
               code   == substr(buffer, region)
               whole  == begin(region) = 0 /\ end(region) = size(buffer)
           IN  \E run \in Answers(code) :
                   /\ ApplyView(MaxTextLen, "format", run, NoOutput,
                                run.stdout = code,
                                format_run(TheView, use_selection, run))
                   /\ tool' = tool \cup {Answer(code, run)}
                   /\ format_runs' = format_runs + 1
                   /\ whole_runs' = IF whole THEN whole_runs + 1 ELSE 0
    /\ UNCHANGED <<sevVars, cfgVars, invVars, hovVars, saveVars, navVars>>

NextFormat ==
    \/ FormatTool
    \/ MoveCursor

SpecFormat == InitLint /\ [][NextFormat]_vars

-----------------------------------------------------------------------------
(* Save: on_pre_save, the editor writes the file, on_post_save *)

save_keys == {"fix_on_save", "format_on_save", "lint_on_save"}

\* A setting is missing or holds a boolean
FlagValues == {"absent", "true", "false"}

\* project_data() is None or has no settings
NoProject == [k \in save_keys |-> "none"]

\* dict.get(key, default) on booleans
get(settings, key, default) ==
    IF settings[key] \in {"absent", "none"} THEN default ELSE settings[key] = "true"

\* A plausible slip: the project value is read and the global value is used.
on_save_flag_global_only(settings, key) ==
    get(settings.global, key, FALSE)

\* Lines 718-728 and 748-755: the flag on_pre_save and on_post_save act on
on_save_flag(settings, key) ==
    LET global_value == get(settings.global, key, FALSE)
    IN  IF settings.project # NoProject
        THEN get(settings.project, key, global_value)
        ELSE global_value

SaveSettings ==
    [is_python : BOOLEAN, global : [save_keys -> FlagValues],
     project : {NoProject} \cup [save_keys -> FlagValues]]

\* On save the tool runs and exits with code 0 (fix, format), with code 0 or
\* with code 1 and one issue (lint)
SaveTextRuns == {ProcRun("exit", 0, out) : out \in TextsUpTo(MaxEditLen)}
SaveLintRuns == {ProcRun("exit", 0, NoOutput),
                 ProcRun("exit", 1, Stdout("list", <<BaseIssue>>))}

InitSave ==
    /\ \E text \in TextsUpTo(MaxEditLen) : Opened(text)
    /\ IdleSev /\ IdleCfg /\ IdleInv /\ IdleHov /\ IdleFmt /\ IdleNav
    /\ save_settings \in SaveSettings
    /\ save_pc = "idle"
    /\ save_log = <<>>

\* The user saves the view
save ==
    /\ save_pc = "idle"
    /\ save_pc' = "pre_save"
    /\ save_log' = <<>>
    /\ UNCHANGED <<save_settings, mainVars, sevVars, cfgVars, invVars,
                   hovVars, fmtVars, navVars>>

\* PythonRuffEventListener.on_pre_save: python_ruff_fix, then
\* python_ruff_format on the whole buffer
on_pre_save ==
    /\ save_pc = "pre_save"
    /\ save_pc' = "write"
    /\ \E fix_in \in SaveTextRuns, format_in \in SaveTextRuns :
           LET fix_on_save    == save_settings.is_python
                                 /\ on_save_flag(save_settings, "fix_on_save")
               format_on_save == save_settings.is_python
                                 /\ on_save_flag(save_settings, "format_on_save")
               fixed  == fix_run(TheView, fix_in)
               v1     == IF fix_on_save THEN fixed.view ELSE TheView
               formatted == format_run(v1, FALSE, format_in)
           IN  /\ IF format_on_save
                  THEN ApplyView(MaxEditLen, "format", format_in, NoOutput,
                                 format_in.stdout = v1.buffer, formatted)
                  ELSE IF fix_on_save
                  THEN ApplyView(MaxEditLen, "fix", fix_in, NoOutput,
                                 fix_in.stdout = buffer, fixed)
                  ELSE UNCHANGED mainVars
               /\ save_log' = save_log
                      \o (IF fix_on_save THEN <<"fix">> ELSE <<>>)
                      \o (IF format_on_save THEN <<"format">> ELSE <<>>)
    /\ UNCHANGED <<save_settings, sevVars, cfgVars, invVars,
                   hovVars, fmtVars, navVars>>

\* The editor writes the buffer to the file
write_file ==
    /\ save_pc = "write"
    /\ save_pc' = "post_save"
    /\ save_log' = Append(save_log, "save")
    /\ UNCHANGED <<save_settings, mainVars, sevVars, cfgVars, invVars,
                   hovVars, fmtVars, navVars>>

\* PythonRuffEventListener.on_post_save: python_ruff_lint
on_post_save ==
    /\ save_pc = "post_save"
    /\ save_pc' = "idle"
    /\ LET lint_on_save == save_settings.is_python
                           /\ on_save_flag(save_settings, "lint_on_save")
       IN  IF lint_on_save
           THEN /\ \E run \in SaveLintRuns :
                       ApplyView(MaxEditLen, "lint", run, decisive(run.stdout),
                                 FALSE, lint_run(TheView, run))
                /\ save_log' = Append(save_log, "lint")
           ELSE UNCHANGED <<mainVars, save_log>>
    /\ UNCHANGED <<save_settings, sevVars, cfgVars, invVars,
                   hovVars, fmtVars, navVars>>

NextSave ==
    \/ save
    \/ on_pre_save
    \/ write_file
    \/ on_post_save

SpecSave == InitSave /\ [][NextSave]_vars

-----------------------------------------------------------------------------
(* Navigation invoked repeatedly: the view was linted once, then the caret is
   placed and one of the two commands is invoked again and again *)

\* Invocations followed in one streak
MaxStreak == MaxIssues * MaxIssues

\* The view after one lint run that reported issues
InitCycle ==
    /\ \E text \in Texts, run \in IssueRuns :
           LET opened == View(text, Region(0, 0), NoDiagnostics,
                              [k \in region_keys |-> <<>>])
               res    == lint_run(opened, run)
           IN  /\ buffer = res.view.buffer
               /\ sel = res.view.sel
               /\ ruff_diagnostics = res.view.ruff_diagnostics
               /\ regions = res.view.regions
               /\ proc = res.process
               /\ last = Last("lint", run, decisive(run.stdout), FALSE, res)
    /\ IdleSev /\ IdleCfg /\ IdleInv /\ IdleHov /\ IdleFmt /\ IdleSave /\ IdleNav

\* The user places the caret; a new streak begins
PlaceCursor ==
    \E point \in 0..size(buffer) :
        /\ sel' = Region(point, point)
        /\ nav_dir' = "none"
        /\ nav_seen' = {}
        /\ nav_count' = 0
        /\ UNCHANGED <<buffer, ruff_diagnostics, regions, proc, last,
                       sevVars, cfgVars, invVars, hovVars, fmtVars, saveVars>>

\* One more invocation of the command of the streak
Streak(dir, result) ==
    /\ nav_dir \in {"none", dir}
    /\ nav_count < MaxStreak
    /\ ApplyView(MaxTextLen, dir, NoRun, NoOutput, FALSE, result)
    /\ nav_dir' = dir
    /\ nav_seen' = IF result.picked = 0 THEN nav_seen
                   ELSE nav_seen \cup {result.picked}
    /\ nav_count' = nav_count + 1
    /\ UNCHANGED <<sevVars, cfgVars, invVars, hovVars, fmtVars, saveVars>>

NextStreak == Streak("next", next_error_run(TheView))

PreviousStreak == Streak("previous", previous_error_run(TheView))

NextCycle ==
    \/ PlaceCursor
    \/ NextStreak
    \/ PreviousStreak

SpecCycle == InitCycle /\ [][NextCycle]_vars

-----------------------------------------------------------------------------
(* The severity classifier on its own: a rule code is drawn, then classified *)

SevAlphabet == {"E", "F", "M", "X", "W", "R", "U", "Z", "1"}
RUF100 == <<"R", "U", "F", "1", "0", "0">>
SevCodes == SeqsUpTo(SevAlphabet, MaxCodeLen) \cup {E501, W605, RUF100, ZZ1}

InitSeverity ==
    /\ Opened(<<>>) /\ IdleCfg /\ IdleInv
    /\ IdleHov /\ IdleFmt /\ IdleSave /\ IdleNav
    /\ sev_code \in SevCodes
    /\ sev_result = "pending"

classify ==
    /\ sev_result = "pending"
    /\ sev_result' = get_severity(sev_code)
    /\ UNCHANGED <<sev_code, mainVars, cfgVars, invVars,
                   hovVars, fmtVars, saveVars, navVars>>

NextSeverity == classify

SpecSeverity == InitSeverity /\ [][NextSeverity]_vars

-----------------------------------------------------------------------------
(* get_ruff_config_file step by step, on a chain of nested directories *)

DirNames == <<"a", "b", "c", "d", "e">>
Dir(depth) == SubSeq(DirNames, 1, depth)
Depths == 0..MaxDepth

ConfigPaths == {Append(Dir(d), config_names[i]) : d \in Depths, i \in 1..Len(config_names)}
FilePaths == {<<>>} \cup {Append(Dir(d), "file.py") : d \in Depths}

InitConfig ==
    /\ Opened(<<>>) /\ IdleSev /\ IdleInv
    /\ IdleHov /\ IdleFmt /\ IdleSave /\ IdleNav
    /\ cfg_fs \in SUBSET ConfigPaths
    /\ cfg_filepath \in FilePaths
    /\ cfg_pc = "call"
    /\ current_dir = <<>>
    /\ cfg_result = <<>>

\* Lines 44-49: the guard on the argument, then the starting directory
config_enter ==
    /\ cfg_pc = "call"
    /\ IF cfg_filepath = <<>>
       THEN /\ cfg_pc' = "done"
            /\ cfg_result' = <<>>
            /\ UNCHANGED current_dir
       ELSE /\ cfg_pc' = "loop"
            /\ current_dir' = dirname(cfg_filepath)
            /\ UNCHANGED cfg_result
    /\ UNCHANGED <<cfg_fs, cfg_filepath, mainVars, sevVars, invVars,
                   hovVars, fmtVars, saveVars, navVars>>

\* Lines 52-65: one pass of the while loop
config_iterate ==
    /\ cfg_pc = "loop"
    /\ LET config_file == config_in(cfg_fs, current_dir)
           parent_dir  == dirname(current_dir)
       IN  IF config_file # <<>>
           THEN /\ cfg_pc' = "done"
                /\ cfg_result' = config_file
                /\ UNCHANGED current_dir
           ELSE IF parent_dir = current_dir
           THEN /\ cfg_pc' = "done"
                /\ cfg_result' = <<>>
                /\ UNCHANGED current_dir
           ELSE /\ current_dir' = parent_dir
                /\ UNCHANGED <<cfg_pc, cfg_result>>
    /\ UNCHANGED <<cfg_fs, cfg_filepath, mainVars, sevVars, invVars,
                   hovVars, fmtVars, saveVars, navVars>>

NextConfig ==
    \/ config_enter
    \/ config_iterate

\* The function is straight-line code: once called it keeps running
SpecConfig ==
    InitConfig /\ [][NextConfig]_vars /\ WF_vars(config_enter) /\ WF_vars(config_iterate)

-----------------------------------------------------------------------------
(* The command lines the three commands build *)

\* The path as the string the argument list carries
RECURSIVE path_str(_)
path_str(path) ==
    IF path = <<>> THEN ""
    ELSE path_str(SubSeq(path, 1, Len(path) - 1)) \o "/" \o path[Len(path)]

ruff_binary == "/usr/bin/ruff"

\* cmd.extend(["--config", config_file]) when a file is found and wanted
config_args(settings, filepath, fs) ==
    LET config_file == get_ruff_config_file(fs, filepath)
    IN  IF config_file # <<>> /\ settings.use_config_file
        THEN <<"--config", path_str(config_file)>> ELSE <<>>

\* Lines 103-117: cmd of PythonRuffFormatCommand.run
format_cmd(settings, filepath, fs) ==
    <<ruff_binary, "format">>
    \o (IF settings.line_length # 0
        THEN <<"--line-length", ToString(settings.line_length)>> ELSE <<>>)
    \o config_args(settings, filepath, fs)
    \o <<"-">>

\* Lines 192-212: cmd of PythonRuffLintCommand.run
lint_cmd(settings, filepath, fs) ==
    <<ruff_binary, "check">>
    \o config_args(settings, filepath, fs)
    \o <<"--output-format", "json">>
    \o (IF filepath # <<>> THEN <<path_str(filepath)>>
        ELSE <<"--stdin-filename", "stdin.py", "-">>)

\* Lines 463-476: cmd of PythonRuffFixCommand.run
fix_cmd(settings, filepath, fs) ==
    <<ruff_binary, "check", "--fix">>
    \o config_args(settings, filepath, fs)
    \o (IF filepath # <<>> THEN <<"--stdin-filename", path_str(filepath)>>
        ELSE <<"--stdin-filename", "stdin.py">>)
    \o <<"-">>

\* The settings line_length (0: unset) and use_config_file, the file name of
\* the view, and a file system holding at most one config file
LineLengths == {0, 88}
InvocationInputs ==
    [line_length : LineLengths, use_config_file : BOOLEAN,
     filepath : FilePaths, fs : {{}} \cup {{c} : c \in ConfigPaths}]

InitInvocation ==
    /\ Opened(<<>>) /\ IdleSev /\ IdleCfg
    /\ IdleHov /\ IdleFmt /\ IdleSave /\ IdleNav
    /\ inv_in \in InvocationInputs
    /\ inv_mode = ""
    /\ inv_cmd = <<>>

Built(mode, cmd) ==
    /\ inv_mode' = mode
    /\ inv_cmd' = cmd
    /\ UNCHANGED <<inv_in, mainVars, sevVars, cfgVars,
                   hovVars, fmtVars, saveVars, navVars>>

build_format == Built("format", format_cmd(inv_in, inv_in.filepath, inv_in.fs))
build_lint   == Built("lint", lint_cmd(inv_in, inv_in.filepath, inv_in.fs))
build_fix    == Built("fix", fix_cmd(inv_in, inv_in.filepath, inv_in.fs))

NextInvocation ==
    \/ build_format
    \/ build_lint
    \/ build_fix

SpecInvocation == InitInvocation /\ [][NextInvocation]_vars

-----------------------------------------------------------------------------
(* Properties of the lint run and of the stored diagnostics *)

\* The latest command was a lint run whose tool exited with code 1
LintExitOne(l) == l.cmd = "lint" /\ l.run_kind = "exit" /\ l.returncode = 1

HasNonIssue(out) == \E i \in 1..Len(out.elems) : out.elems[i].kind # "issue"

\* Output that is no list of issue objects at all: nothing, no JSON, a JSON
\* value that is no list, or a list with an element that is no issue object
NotAnIssueList(out) == out.kind # "list" \/ HasNonIssue(out)

\* Output the run fails on: no JSON, a JSON scalar, or a JSON value with an
\* element that is no issue object
Unparseable(out) == out.kind \in {"malformed", "scalar"} \/ HasNonIssue(out)

C2_TimeoutTerminatesProcess ==
    (last.cmd \in {"format", "lint", "fix"} /\ last.run_kind = "timeout")
        => proc # "running"

\* The exit codes a command accepts
Accepted(cmd) == IF cmd = "format" THEN {0} ELSE {0, 1}

\* The latest command met one of the failure kinds
Failed(l) ==
    /\ l.cmd \in {"format", "lint", "fix"}
    /\ \/ l.run_kind \in {"not_found", "spawn_failure", "timeout"}
       \/ l.run_kind = "exit" /\ l.returncode \notin Accepted(l.cmd)
       \/ LintExitOne(l) /\ Unparseable(l.lint_out)

\* C3: for every invocation of format, lint or fix and every failure kind
\* (tool not found, spawn failure, timeout, exit code outside the accepted
\* set, parse failure) the command returns without an unhandled exception,
\* shows exactly one message, and starts the tool at most once.
C3_OneMessagePerFailure ==
    /\ last.cmd \in {"format", "lint", "fix"} => last.spawned <= 1
    /\ Failed(last) =>
           /\ last.raised = ""
           /\ Len(last.msgs) = 1
           /\ last.run_kind = "not_found" => last.spawned = 0

\* A lint run whose output is a JSON scalar (the TypeError reaches the outer
\* handler) returned with one message
C3_Witness ==
    /\ LintExitOne(last)
    /\ last.lint_out.kind = "scalar"
    /\ last.raised = ""
    /\ last.msgs = <<"error: exception">>
    /\ last.spawned = 1

\* C4: fix never replaces buffer text when the exit code is outside {0, 1};
\* when the exit code is 0 or 1 and the output equals the buffer text sent as
\* input, the buffer is not changed.
C4_FixSafety ==
    [][Fix(MaxTextLen) =>
           ((last'.run_kind = "exit"
             /\ (last'.returncode \notin {0, 1} \/ last'.same))
                => (buffer' = buffer /\ ~last'.replaced))]_vars

\* The tool exited with code 2 and printed a text other than the buffer, which
\* fix did not apply
C4_Witness ==
    /\ last.cmd = "fix"
    /\ last.run_kind = "exit"
    /\ last.returncode = 2
    /\ ~last.same
    /\ ~last.replaced
    /\ buffer # <<>>

\* The stored diagnostics are the issues of the output, in its order
SameIssues(diags, elems) ==
    /\ Len(diags) = Len(elems)
    /\ \A i \in 1..Len(elems) :
           /\ diags[i].row = elems[i].row
           /\ diags[i].col = elems[i].column
           /\ diags[i].code = elems[i].code

\* C5: ruff_diagnostics is determined by the most recent lint run or clear:
\* after a lint run that exits 1 with parseable output it holds exactly that
\* run's issues in the order of the output, after a lint run that exits 0 or a
\* clear it is empty; no other command writes it.
C5_StoreFollowsLatestLint ==
    /\ [](/\ (LintExitOne(last) /\ ~Unparseable(last.lint_out))
               => /\ ruff_diagnostics.present
                  /\ SameIssues(ruff_diagnostics.diags, last.lint_out.elems)
          /\ (last.cmd = "clear"
              \/ (last.cmd = "lint" /\ last.run_kind = "exit" /\ last.returncode = 0))
               => ruff_diagnostics = NoDiagnostics)
    /\ [][last'.cmd \notin {"lint", "clear"}
              => ruff_diagnostics' = ruff_diagnostics]_vars

\* Two issues are stored in the order of the output, the later row first
C5_Witness ==
    /\ LintExitOne(last)
    /\ Len(last.lint_out.elems) = 2
    /\ last.lint_out.elems[1].row > last.lint_out.elems[2].row
    /\ Len(ruff_diagnostics.diags) = 2
    /\ ruff_diagnostics.diags[1].row > ruff_diagnostics.diags[2].row

-----------------------------------------------------------------------------
(* Properties of repeated navigation *)

\* C15: with N stored diagnostics and no other command in between, invoking
\* next again and again from any caret position selects every stored
\* diagnostic, each within at most N invocations of the one before it; the
\* same holds for previous.  Stated by what it implies: after N * N
\* invocations in a row every stored diagnostic has been selected.
C15_NavigationCycles ==
    LET N == Len(ruff_diagnostics.diags)
    IN  (N > 0 /\ nav_count >= N * N) => nav_seen = 1..N

-----------------------------------------------------------------------------
(* Properties of the rendered regions *)

\* The spans of the stored diagnostics of one severity, in stored order
SpansOf(sev) ==
    LET of_sev == SelectSeq(ruff_diagnostics.diags, LAMBDA d : d.severity = sev)
    IN  [i \in 1..Len(of_sev) |-> of_sev[i].region]

\* C14: after any sequence of lint (whatever its outcome), clear, format and
\* fix commands the rendered regions are exactly the spans of the stored
\* diagnostics, each under the region key of its severity; the store is never
\* non-empty while no region is rendered.
C14_RegionsAreStoredSpans ==
    /\ regions["ruff_errors"] = SpansOf("error")
    /\ regions["ruff_warnings"] = SpansOf("warning")
    /\ regions["ruff_info"] = SpansOf("info")
    /\ ruff_diagnostics.diags # <<>> =>
           \E k \in region_keys : regions[k] # <<>>

-----------------------------------------------------------------------------
(* Properties of format, fix and editing on the stored diagnostics *)

-----------------------------------------------------------------------------
(* Properties of navigation *)

Start(i) == begin(ruff_diagnostics.diags[i].region)
Stored == 1..Len(ruff_diagnostics.diags)
After(p) == {i \in Stored : Start(i) > p}
Before(p) == {i \in Stored : Start(i) < p}
InStartOrder == \A i, j \in Stored : i <= j => Start(i) <= Start(j)

\* C6 as stated: for a non-empty stored set and cursor p, when some diagnostic
\* starts after p, next selects the one with the smallest such start; when
\* some diagnostic starts before p, previous selects the one with the largest
\* such start.
C6_Original ==
    /\ (last.cmd = "next" /\ After(last.pos) # {})
           => /\ last.picked \in After(last.pos)
              /\ \A j \in After(last.pos) : Start(last.picked) <= Start(j)
    /\ (last.cmd = "previous" /\ Before(last.pos) # {})
           => /\ last.picked \in Before(last.pos)
              /\ \A j \in Before(last.pos) : Start(j) <= Start(last.picked)

\* C6: for a non-empty stored set and cursor p, when some diagnostic starts
\* after p, next selects the first one in stored order that does; when some
\* diagnostic starts before p, previous selects the last one in stored order
\* that does.  These have the smallest and the largest such start when the
\* stored order is the order of the starts.
C6_NavigationPicks ==
    /\ (last.cmd = "next" /\ After(last.pos) # {})
           => /\ last.picked \in After(last.pos)
              /\ \A j \in After(last.pos) : last.picked <= j
              /\ InStartOrder =>
                     \A j \in After(last.pos) : Start(last.picked) <= Start(j)
    /\ (last.cmd = "previous" /\ Before(last.pos) # {})
           => /\ last.picked \in Before(last.pos)
              /\ \A j \in Before(last.pos) : j <= last.picked
              /\ InStartOrder =>
                     \A j \in Before(last.pos) : Start(j) <= Start(last.picked)

\* next went from a cursor between two stored diagnostics to the second
C6_Witness ==
    /\ last.cmd = "next"
    /\ Len(ruff_diagnostics.diags) = 2
    /\ Start(1) <= last.pos
    /\ Start(2) > last.pos
    /\ last.picked = 2
    /\ sel = ruff_diagnostics.diags[2].region

\* Diagnostics that start at 10, 50 and 90
ExampleDiagnostics == [i \in 1..3 |-> [region |-> Region(40 * i - 30, 40 * i - 26)]]

\* C7: when no stored diagnostic starts after the cursor, next selects the
\* first element of the stored set; when none starts before the cursor,
\* previous selects the last element; when the stored set is empty or absent,
\* neither command changes the selection.  With starts 10, 50, 90 and the
\* cursor at 90, next selects the one at 10 and previous the one at 50.
C7_NavigationWraps ==
    /\ [](/\ (last.cmd = "next" /\ Stored # {} /\ After(last.pos) = {})
               => last.picked = 1
          /\ (last.cmd = "previous" /\ Stored # {} /\ Before(last.pos) = {})
               => last.picked = Len(ruff_diagnostics.diags)
          /\ (last.cmd \in {"next", "previous"} /\ Stored = {})
               => last.picked = 0)
    /\ [][(NextError \/ PreviousError) =>
              IF get_diagnostics(TheView) = <<>> THEN sel' = sel
              ELSE sel' = get_diagnostics(TheView)[last'.picked].region]_vars
    /\ [](/\ next_index(ExampleDiagnostics, 90) = 1
          /\ previous_index(ExampleDiagnostics, 90) = 2)

\* previous wrapped from the start of the buffer to the last of two diagnostics
C7_Witness ==
    /\ last.cmd = "previous"
    /\ Len(ruff_diagnostics.diags) = 2
    /\ Before(last.pos) = {}
    /\ last.picked = 2
    /\ sel = ruff_diagnostics.diags[2].region

-----------------------------------------------------------------------------
(* Properties of format *)

-----------------------------------------------------------------------------
(* Properties of the save *)

\* The effective on-save flag: the project value when present, else the
\* global value, else false
Effective(key) ==
    IF save_settings.project # NoProject
       /\ save_settings.project[key] \in {"true", "false"}
    THEN save_settings.project[key] = "true"
    ELSE save_settings.global[key] = "true"

RunsIf(key, cmd) == IF Effective(key) THEN <<cmd>> ELSE <<>>

BeforeSave == RunsIf("fix_on_save", "fix") \o RunsIf("format_on_save", "format")

\* C13: on every save of a Python buffer each of fix, format and lint runs if
\* and only if its effective on-save flag is true, a project value taking
\* precedence over the global value (default false); fix runs before format,
\* both before the save, and lint only after the save.
C13_OnSave ==
    save_settings.is_python =>
        /\ save_pc = "pre_save" => save_log = <<>>
        /\ save_pc = "write" => save_log = BeforeSave
        /\ save_pc = "post_save" => save_log = BeforeSave \o <<"save">>
        /\ (save_pc = "idle" /\ save_log # <<>>) =>
               save_log = BeforeSave \o <<"save">> \o RunsIf("lint_on_save", "lint")

\* A save ran fix, format, the save and lint in this order, fix enabled by the
\* project against the global value, lint by the project alone, format by
\* the global value alone
C13_Witness ==
    /\ save_settings.is_python
    /\ save_settings.global["fix_on_save"] = "false"
    /\ save_settings.project # NoProject
    /\ save_settings.project["fix_on_save"] = "true"
    /\ save_settings.global["lint_on_save"] = "absent"
    /\ save_settings.project["lint_on_save"] = "true"
    /\ save_settings.global["format_on_save"] = "true"
    /\ save_settings.project["format_on_save"] = "absent"
    /\ save_pc = "idle"
    /\ save_log = <<"fix", "format", "save", "lint">>

-----------------------------------------------------------------------------
(* Properties of the hover lookup *)

\* The stored diagnostics whose span contains the point, by index
Containing(point) ==
    {i \in Stored : Start(i) <= point
                    /\ point <= end(ruff_diagnostics.diags[i].region)}

\* shown lists the stored diagnostics of the indices in hits, in stored order
ListsInOrder(shown, hits) ==
    /\ Len(shown) = Cardinality(hits)
    /\ \A k \in 1..Len(shown) :
           \E i \in hits :
               /\ Cardinality({j \in hits : j <= i}) = k
               /\ shown[k] = ruff_diagnostics.diags[i]

\* C11: the hover lookup returns, in stored order, exactly the stored
\* diagnostics whose span contains the hovered position, all of them when
\* spans overlap, and nothing when the stored set is empty or no span contains
\* the position.
C11_HoverLookup ==
    [][(on_hover /\ hover_point' # -1) =>
           /\ ListsInOrder(hover_diagnostics', Containing(hover_point'))
           /\ (Stored = {} \/ Containing(hover_point') = {})
                  => hover_diagnostics' = <<>>]_vars

\* A hover at a point inside two overlapping spans showed both diagnostics,
\* in stored order
C11_Witness ==
    /\ hover_point # -1
    /\ Len(ruff_diagnostics.diags) = 2
    /\ ruff_diagnostics.diags[1] # ruff_diagnostics.diags[2]
    /\ Containing(hover_point) = {1, 2}
    /\ hover_diagnostics = ruff_diagnostics.diags

-----------------------------------------------------------------------------
(* Properties of the severity classifier *)

\* C8: the severity classifier is a total function of the rule code: an empty
\* or missing code is an error; a code that starts with E or F is an error,
\* also when it starts with a listed warning prefix (EM, EXE, ERA, FIX, FLY,
\* FURB); otherwise a code that starts with a listed warning prefix is a
\* warning; every other code is info.  E501 -> error, W605 -> warning,
\* RUF100 -> warning, ZZ1 -> info.
C8_SeverityClassifier ==
    /\ sev_result # "pending" =>
        /\ sev_result \in {"error", "warning", "info"}
        /\ sev_result = "error" <=>
               (sev_code = <<>> \/ sev_code[1] \in {"E", "F"})
        /\ sev_result = "warning" <=>
               /\ sev_code # <<>>
               /\ sev_code[1] \notin {"E", "F"}
               /\ \E prefix \in warning_prefixes : startswith(sev_code, prefix)
    /\ \A p \in {<<"E","M">>, <<"E","X","E">>, <<"E","R","A">>, <<"F","I","X">>,
                 <<"F","L","Y">>, <<"F","U","R","B">>} :
           p \in warning_prefixes /\ get_severity(p \o <<"1">>) = "error"
    /\ get_severity(E501) = "error"
    /\ get_severity(W605) = "warning"
    /\ get_severity(RUF100) = "warning"
    /\ get_severity(ZZ1) = "info"

\* A code that starts with E and with the listed warning prefix EM was
\* classified as an error
C8_Witness ==
    /\ sev_result = "error"
    /\ Len(sev_code) = 3
    /\ startswith(sev_code, <<"E", "M">>)

-----------------------------------------------------------------------------
(* Properties of config discovery *)

\* The directories get_ruff_config_file visits: the one holding the file and
\* its ancestors up to the root, as prefixes of the path
Holds(fs, dir) == \E i \in 1..Len(config_names) : Append(dir, config_names[i]) \in fs
Ancestors(filepath) == {SubSeq(filepath, 1, k) : k \in 0..(Len(filepath) - 1)}
NearestHolder(fs, filepath) ==
    CHOOSE d \in Ancestors(filepath) :
        /\ Holds(fs, d)
        /\ \A e \in Ancestors(filepath) : Holds(fs, e) => Len(e) <= Len(d)
FirstName(fs, dir) ==
    CHOOSE i \in 1..Len(config_names) :
        /\ Append(dir, config_names[i]) \in fs
        /\ \A j \in 1..(i - 1) : Append(dir, config_names[j]) \notin fs

C9_Returned ==
    IF cfg_filepath = <<>> \/ ~\E d \in Ancestors(cfg_filepath) : Holds(cfg_fs, d)
    THEN cfg_result = <<>>
    ELSE LET d == NearestHolder(cfg_fs, cfg_filepath)
         IN  cfg_result = Append(d, config_names[FirstName(cfg_fs, d)])

\* C9: config discovery always terminates, and returns the config file of the
\* nearest ancestor directory of the file (its own directory first) that holds
\* a recognized name, the priority ruff.toml, .ruff.toml, pyproject.toml
\* deciding within that directory only; it returns none when the path is
\* absent or no directory up to the root holds a recognized name.
C9_ConfigDiscovery ==
    /\ <>(cfg_pc = "done")
    /\ [](cfg_pc = "done" => C9_Returned)

\* The lowest-priority name in the file's directory won over the
\* highest-priority name one directory up
C9_Witness ==
    /\ cfg_pc = "done"
    /\ cfg_filepath = Append(Dir(2), "file.py")
    /\ Append(Dir(1), "ruff.toml") \in cfg_fs
    /\ cfg_result = Append(Dir(2), "pyproject.toml")

-----------------------------------------------------------------------------
(* Properties of the command lines *)

HasPair(cmd, flag, value) ==
    \E i \in 1..(Len(cmd) - 1) : cmd[i] = flag /\ cmd[i + 1] = value
HasFlag(cmd, flag) == \E i \in 1..Len(cmd) : cmd[i] = flag

\* C10: every command line built by format, lint or fix that ends in "-"
\* (source read from standard input) also carries --stdin-filename <name>;
\* --line-length appears only in format command lines and
\* --output-format json only in lint command lines.
C10_CommandLines ==
    inv_mode # "" =>
        /\ inv_cmd[Len(inv_cmd)] = "-" =>
               \E i \in 1..(Len(inv_cmd) - 1) :
                   inv_cmd[i] = "--stdin-filename" /\ inv_cmd[i + 1] # "-"
        /\ HasFlag(inv_cmd, "--line-length") => inv_mode = "format"
        /\ HasPair(inv_cmd, "--output-format", "json") => inv_mode = "lint"

====
